---- MODULE Spec2Model ----
(***************************************************************************)
(* A model of the two scripts of the repository:                           *)
(*   - fix_sagemaker_workflow_import.py, the SDK doctor                    *)
(*     (check_and_install_sagemaker and the __main__ exit code);           *)
(*   - seedcode/pipelines/abalone/preprocess.py, the dataset preprocessor  *)
(*     (__main__ and write_to_feature_store).                              *)
(* Text (version strings, flag values, exception messages) is a sequence   *)
(* of one-character strings, so that split('.'), int(), lower() and the    *)
(* substring test are computed rather than assumed.                        *)
(***************************************************************************)
EXTENDS Integers, Sequences, FiniteSets, TLC

VARIABLES
    \* ---- SDK doctor ----
    sdk,                 \* the environment: [installed, version] of the SDK package
    dpc,                 \* position in check_and_install_sagemaker / __main__
    verdict,             \* which branch of lines 26-43 classified the SDK
    needs_upgrade,       \* local needs_upgrade
    workflow_available,  \* local workflow_available
    pip_calls,           \* number of subprocess.check_call invocations
    wf_imports,          \* outcomes of the attempts to import sagemaker.workflow
    uncaught,            \* exception that left check_and_install_sagemaker, or "none"
    exit_code,           \* process exit status, -1 while running
    \* ---- split (np.split with the float boundaries) ----
    split_in,            \* the rows handed to np.split
    split_out,           \* [done, train, validation, test]
    \* ---- dataset preprocessor ----
    args,                \* parsed command line: [enable_feature_store, feature_group_name]
    env,                 \* os.environ: [SAGEMAKER_ROLE_ARN, TRAINING_JOB_ROLE_ARN]
    s3obj,               \* the rows of the CSV object in the bucket
    pc,                  \* position in __main__ / write_to_feature_store
    df,                  \* the dataframe df: [columns, rows]
    y,                   \* the popped label column
    X,                   \* the concatenated matrix, shuffled in place
    partitions,          \* <<train, validation, test>>
    files,               \* the output files under /opt/ml/processing
    original_df,         \* df.copy() with the label put back
    wtfs,                \* write_to_feature_store: not_called, running, returned, raised
    fs_ops,              \* feature-store operations attempted, in order
    create_result,       \* outcome of feature_group.create: [status, text]
    log,                 \* logger calls of the feature-store step, in order
    raised               \* exception that left __main__, or "none"

doctorVars == <<sdk, dpc, verdict, needs_upgrade, workflow_available,
                pip_calls, wf_imports, uncaught, exit_code>>
splitVars == <<split_in, split_out>>
preVars == <<args, env, s3obj, pc, df, y, X, partitions, files, original_df, wtfs,
             fs_ops, create_result, log, raised>>
vars == <<doctorVars, splitVars, preVars>>

-----------------------------------------------------------------------------
(* Bounds of the model *)

\* longest version string the SDK reports
MaxVerLen == 5
\* largest row count handed to the split
MaxSplitRows == 100
\* largest dataset of the preprocessor runs over every command line
MaxRows == 2
\* largest dataset of the data-path runs
MaxDataRows == 7

-----------------------------------------------------------------------------
(* Text helpers *)

Last(s) == s[Len(s)]

\* index of the first occurrence of c in s, 0 when there is none
RECURSIVE IndexOf(_, _, _)
IndexOf(s, c, i) ==
    IF i > Len(s) THEN 0
    ELSE IF s[i] = c THEN i
    ELSE IndexOf(s, c, i + 1)

\* str.split(sep) with a one-character separator
RECURSIVE str_split(_, _)
str_split(s, sep) ==
    LET i == IndexOf(s, sep, 1) IN
    IF i = 0 THEN <<s>>
    ELSE <<SubSeq(s, 1, i - 1)>> \o str_split(SubSeq(s, i + 1, Len(s)), sep)

\* seq[:k]
Take(s, k) == SubSeq(s, 1, IF Len(s) < k THEN Len(s) ELSE k)

Digits == {"0", "1", "2", "3", "4", "5", "6", "7", "8", "9"}

DigitVal(c) ==
    CASE c = "0" -> 0 [] c = "1" -> 1 [] c = "2" -> 2 [] c = "3" -> 3
      [] c = "4" -> 4 [] c = "5" -> 5 [] c = "6" -> 6 [] c = "7" -> 7
      [] c = "8" -> 8 [] c = "9" -> 9

\* whether int(s) returns (a non-empty run of decimal digits) or raises ValueError
IntParses(s) == Len(s) > 0 /\ \A i \in 1..Len(s) : s[i] \in Digits

\* int(s) for a string that parses
RECURSIVE IntOf(_)
IntOf(s) ==
    IF Len(s) = 0 THEN 0
    ELSE 10 * IntOf(SubSeq(s, 1, Len(s) - 1)) + DigitVal(s[Len(s)])

-----------------------------------------------------------------------------
(* SDK doctor: fix_sagemaker_workflow_import.py *)

VerAlphabet == {"0", "1", "2", ".", "a"}

VersionStrings == UNION {[1..n -> VerAlphabet] : n \in 1..MaxVerLen}

SdkStates ==
    {[installed |-> FALSE, version |-> <<>>]}
        \cup {[installed |-> TRUE, version |-> v] : v \in VersionStrings}

\* major, minor = map(int, version.split('.')[:2]): the unpacking needs exactly
\* two values and each must parse, otherwise ValueError
ParseMajorMinor(version) ==
    LET parts == Take(str_split(version, "."), 2) IN
    IF Len(parts) = 2 /\ IntParses(parts[1]) /\ IntParses(parts[2])
    THEN [ok |-> TRUE, major |-> IntOf(parts[1]), minor |-> IntOf(parts[2])]
    ELSE [ok |-> FALSE, major |-> 0, minor |-> 0]

\* if major < 2
TooOld(major) == major < 2

ExitAlwaysZero(success) == 0

\* sys.exit(0 if success else 1)
ExitCodeOf(success) == IF success THEN 0 ELSE 1

\* an exception nobody catches ends the interpreter with status 1
UncaughtExit(exc) ==
    /\ uncaught' = exc
    /\ exit_code' = 1
    /\ dpc' = "exited"

\* return <value> from check_and_install_sagemaker, then sys.exit
ReturnExit(success) ==
    /\ exit_code' = ExitCodeOf(success)
    /\ dpc' = "exited"
    /\ UNCHANGED uncaught

InitDoctor ==
    /\ sdk \in SdkStates
    /\ dpc = "check_sdk"
    /\ verdict = "unset"
    /\ needs_upgrade = FALSE
    /\ workflow_available = FALSE
    /\ pip_calls = 0
    /\ wf_imports = <<>>
    /\ uncaught = "none"
    /\ exit_code = -1

\* lines 26-43: import sagemaker, parse the version, classify
CheckSdk ==
    /\ dpc = "check_sdk"
    /\ IF ~sdk.installed
       THEN /\ verdict' = "not_found"
            /\ needs_upgrade' = TRUE
            /\ dpc' = "check_workflow"
            /\ UNCHANGED <<uncaught, exit_code>>
       ELSE LET p == ParseMajorMinor(sdk.version) IN
            IF ~p.ok
            THEN /\ UncaughtExit("ValueError")
                 /\ UNCHANGED <<verdict, needs_upgrade>>
            ELSE /\ verdict' = IF TooOld(p.major) THEN "too_old" ELSE "compatible"
                 /\ needs_upgrade' = TooOld(p.major)
                 /\ dpc' = "check_workflow"
                 /\ UNCHANGED <<uncaught, exit_code>>
    /\ UNCHANGED <<sdk, workflow_available, pip_calls, wf_imports>>
    /\ UNCHANGED <<splitVars, preVars>>

\* lines 45-56: the first import of the workflow submodule
CheckWorkflow ==
    /\ dpc = "check_workflow"
    /\ IF needs_upgrade
       THEN /\ workflow_available' = FALSE
            /\ UNCHANGED <<needs_upgrade, wf_imports>>
       ELSE \E ok \in BOOLEAN :
            /\ wf_imports' = Append(wf_imports, ok)
            /\ workflow_available' = ok
            /\ needs_upgrade' = ~ok
    /\ dpc' = "install"
    /\ UNCHANGED <<sdk, verdict, pip_calls, uncaught, exit_code>>
    /\ UNCHANGED <<splitVars, preVars>>

PipOutcomes == {"ok", "CalledProcessError", "OSError"}

\* lines 58-68 and 84-88: the package-manager call and its handler
Install ==
    /\ dpc = "install"
    /\ IF ~needs_upgrade
       THEN /\ dpc' = "report"
            /\ UNCHANGED <<pip_calls, uncaught, exit_code>>
       ELSE \E r \in PipOutcomes :
            /\ pip_calls' = pip_calls + 1
            /\ CASE r = "ok" ->
                      /\ dpc' = "verify"
                      /\ UNCHANGED <<uncaught, exit_code>>
                 [] r = "CalledProcessError" -> ReturnExit(FALSE)
                 [] r = "OSError" -> UncaughtExit("OSError")
    /\ UNCHANGED <<sdk, verdict, needs_upgrade, workflow_available, wf_imports>>
    /\ UNCHANGED <<splitVars, preVars>>

\* lines 70-72: import sagemaker again; an ImportError here has no handler
VerifyInstall ==
    /\ dpc = "verify"
    /\ \E ok \in BOOLEAN :
         IF ok
         THEN /\ dpc' = "recheck"
              /\ UNCHANGED <<uncaught, exit_code>>
         ELSE UncaughtExit("ImportError")
    /\ UNCHANGED <<sdk, verdict, needs_upgrade, workflow_available, pip_calls,
                   wf_imports>>
    /\ UNCHANGED <<splitVars, preVars>>

\* lines 74-82: the second import of the workflow submodule
RecheckWorkflow ==
    /\ dpc = "recheck"
    /\ \E ok \in BOOLEAN :
         /\ wf_imports' = Append(wf_imports, ok)
         /\ IF ok
            THEN /\ workflow_available' = TRUE
                 /\ dpc' = "report"
                 /\ UNCHANGED <<uncaught, exit_code>>
            ELSE /\ ReturnExit(FALSE)
                 /\ UNCHANGED workflow_available
    /\ UNCHANGED <<sdk, verdict, needs_upgrade, pip_calls>>
    /\ UNCHANGED <<splitVars, preVars>>

\* lines 90-105: the summary, return workflow_available, sys.exit
Report ==
    /\ dpc = "report"
    /\ ReturnExit(workflow_available)
    /\ UNCHANGED <<sdk, verdict, needs_upgrade, workflow_available, pip_calls,
                   wf_imports>>
    /\ UNCHANGED <<splitVars, preVars>>

check_and_install_sagemaker ==
    \/ CheckSdk
    \/ CheckWorkflow
    \/ Install
    \/ VerifyInstall
    \/ RecheckWorkflow
    \/ Report

-----------------------------------------------------------------------------
(* The split: np.split(X, [int(0.7 * len(X)), int(0.85 * len(X))]) *)

\* A double c in [0.5, 1) is m * 2^-53 with a 53-bit integer m, kept here as three
\* limbs <<hi, mid, lo>> in base 2^20 (m = hi * 2^40 + mid * 2^20 + lo).
LimbBase == 2 ^ 20
FracBitsHi == 2 ^ 13

\* the literal 0.7  = 6305039478318694 * 2^-53
Double07 == <<5734, 419430, 419430>>
\* the literal 0.85 = 7656119366529843 * 2^-53
Double085 == <<6963, 209715, 209715>>

RECURSIVE BitLen(_)
BitLen(x) == IF x = 0 THEN 0 ELSE 1 + BitLen(x \div 2)

\* the exact product n * m as limbs <<hi, mid, lo>>, hi unbounded (n < 2^11)
MulLimbs(c, n) ==
    LET p0 == n * c[3]
        p1 == n * c[2] + (p0 \div LimbBase)
        p2 == n * c[1] + (p1 \div LimbBase)
    IN  <<p2, p1 % LimbBase, p0 % LimbBase>>

\* int(c * n): the product n * m * 2^-53 is rounded to the nearest double (53
\* significant bits, ties to even) and then truncated toward zero.  With I the
\* integer part of the exact product and s its bit length, the double keeps
\* 53 - s fraction bits; the rounded value reaches I + 1 exactly when all the
\* kept fraction bits and the first dropped bit are ones.
int_of_product(c, n) ==
    LET p == MulLimbs(c, n)
        I == p[1] \div FracBitsHi
        s == BitLen(I)
        roundsToNext ==
            /\ s >= 1
            /\ p[1] % FracBitsHi = FracBitsHi - 1
            /\ p[2] = LimbBase - 1
            /\ p[3] >= LimbBase - 2 ^ (s - 1)
    IN  IF roundsToNext THEN I + 1 ELSE I

\* the Python slice s[lo:hi] for 0 <= lo, 0 <= hi
Slice(s, lo, hi) == SubSeq(s, lo + 1, IF hi < Len(s) THEN hi ELSE Len(s))

np_split_gap(ary, a, b) ==
    <<Slice(ary, 0, a), Slice(ary, a + 1, b), Slice(ary, b, Len(ary))>>

\* np.split(ary, [a, b]) == [ary[:a], ary[a:b], ary[b:]]
np_split(ary, a, b) ==
    <<Slice(ary, 0, a), Slice(ary, a, b), Slice(ary, b, Len(ary))>>

\* lines 217-219
train_validation_test(ary) ==
    np_split(ary, int_of_product(Double07, Len(ary)),
             int_of_product(Double085, Len(ary)))

RowIds(n) == [i \in 1..n |-> i]

InitSplit ==
    /\ split_in \in {RowIds(n) : n \in 0..MaxSplitRows}
    /\ split_out = [done |-> FALSE, train |-> <<>>, validation |-> <<>>, test |-> <<>>]

SplitRows ==
    /\ ~split_out.done
    /\ LET parts == train_validation_test(split_in) IN
       split_out' = [done |-> TRUE, train |-> parts[1], validation |-> parts[2],
                     test |-> parts[3]]
    /\ UNCHANGED split_in
    /\ UNCHANGED <<doctorVars, preVars>>

-----------------------------------------------------------------------------
(* Dataset preprocessor: seedcode/pipelines/abalone/preprocess.py *)

UpperLetters == <<"A", "B", "C", "D", "E", "F", "G", "H", "I", "J", "K", "L", "M", "N", "O", "P", "Q", "R", "S", "T", "U", "V", "W", "X", "Y", "Z">>
LowerLetters == <<"a", "b", "c", "d", "e", "f", "g", "h", "i", "j", "k", "l", "m", "n", "o", "p", "q", "r", "s", "t", "u", "v", "w", "x", "y", "z">>

lower_char(c) ==
    LET i == IndexOf(UpperLetters, c, 1) IN
    IF i = 0 THEN c ELSE LowerLetters[i]

\* str.lower()
str_lower(s) == [i \in 1..Len(s) |-> lower_char(s[i])]

\* needle in hay
str_contains(hay, needle) ==
    \E i \in 1..(Len(hay) - Len(needle) + 1) :
        SubSeq(hay, i, i + Len(needle) - 1) = needle

TxtTrue == <<"t", "r", "u", "e">>
TxtResourceInUse == <<"R", "e", "s", "o", "u", "r", "c", "e", "I", "n", "U", "s", "e">>
TxtAlreadyExists == <<"a", "l", "r", "e", "a", "d", "y", " ", "e", "x", "i", "s", "t", "s">>

\* An optional string (None, or a str): argparse defaults and os.environ.get
None == [set |-> FALSE, value |-> <<>>]
Str(t) == [set |-> TRUE, value |-> t]

\* truth value of an optional string: None and "" are false
Truthy(v) == v.set /\ Len(v.value) > 0

\* a or b
PyOr(a, b) == IF Truthy(a) THEN a ELSE b

\* values of --enable-feature-store (default "False")
EnableArgs == {<<"F", "a", "l", "s", "e">>, <<"T", "r", "u", "e">>, <<"t", "r", "u", "e">>, <<"T", "R", "U", "E">>}
\* values of --feature-group-name (default None)
NameArgs == {None, Str(<<>>), Str(<<"f", "g">>)}
\* values of one role variable of the environment
RoleValues == {None, Str(<<>>), Str(<<"a", "r", "n">>)}

ArgSpace == [enable_feature_store : EnableArgs, feature_group_name : NameArgs]
EnvSpace == [SAGEMAKER_ROLE_ARN : RoleValues, TRAINING_JOB_ROLE_ARN : RoleValues]

DefaultArgs == [enable_feature_store |-> <<"F", "a", "l", "s", "e">>, feature_group_name |-> None]
EmptyEnv == [SAGEMAKER_ROLE_ARN |-> None, TRAINING_JOB_ROLE_ARN |-> None]

\* Lines 26-36.  The seven numeric columns go through the same imputer and
\* scaler, column by column; "length" stands for them.
feature_columns_names == <<"sex", "length">>
label_column == "rings"

\* rows of the input object: sex is a category or an empty field (NaN)
DataRows ==
    {[sex |-> "M", length |-> 2, rings |-> 9], [sex |-> "F", length |-> 4, rings |-> 7]}
RowSpace == DataRows \cup {[sex |-> "NaN", length |-> 4, rings |-> 9]}

Datasets(rows, k) == UNION {[1..n -> rows] : n \in 0..k}

RECURSIVE Sum(_)
Sum(s) == IF Len(s) = 0 THEN 0 ELSE s[1] + Sum(Tail(s))

\* SimpleImputer(strategy="constant", fill_value="missing")
impute_constant(v) == IF v = "NaN" THEN "missing" ELSE v

\* the order in which OneHotEncoder sorts the categories it meets
SortedCategories == <<"F", "I", "M", "missing">>

\* fit: the statistics StandardScaler learns for the numeric column (no numeric
\* field is empty, so the median imputer changes nothing) and the categories
\* OneHotEncoder learns
fit(rows) ==
    [n |-> Len(rows),
     S |-> Sum([k \in 1..Len(rows) |-> rows[k].length]),
     SS |-> Sum([k \in 1..Len(rows) |-> rows[k].length * rows[k].length]),
     cats |-> SelectSeq(SortedCategories,
                 LAMBDA c : \E k \in 1..Len(rows) : impute_constant(rows[k].sex) = c)]

\* the z-score (x - mean) / std, kept exactly as <<n x - S, n SS - S^2>>:
\* numerator and squared denominator, both scaled by n
standard_scale(m, x) == <<m.n * x - m.S, m.n * m.SS - m.S * m.S>>

onehot(m, v) ==
    [k \in 1..Len(m.cats) |-> IF m.cats[k] = impute_constant(v) THEN 1 ELSE 0]

\* preprocess.fit_transform(df): the "num" block, then the "cat" block
fit_transform(rows) ==
    LET m == fit(rows) IN
    [i \in 1..Len(rows) |->
        <<standard_scale(m, rows[i].length)>> \o onehot(m, rows[i].sex)]

\* np.concatenate((y_pre, X_pre), axis=1)
np_concatenate(y_pre, X_pre) == [i \in 1..Len(y_pre) |-> <<y_pre[i]>> \o X_pre[i]]

Range(s) == {s[i] : i \in 1..Len(s)}
Count(s, r) == Cardinality({i \in 1..Len(s) : s[i] = r})
SameBag(s, t) ==
    /\ Len(s) = Len(t)
    /\ \A r \in Range(s) \cup Range(t) : Count(s, r) = Count(t, r)

\* a shuffle that reorders the feature columns and leaves the label column in place
shuffle_features_only(M) ==
    {[i \in 1..Len(M) |-> <<M[i][1]>> \o Tail(p[i])] :
        p \in {q \in [1..Len(M) -> Range(M)] : SameBag(q, M)}}

\* np.random.shuffle(X): the possible results, X's rows in any order
np_random_shuffle(M) == {p \in [1..Len(M) -> Range(M)] : SameBag(p, M)}

\* DataFrame.to_csv(path, header=..., index=False): the header line (<<>> for
\* header=False) and the data lines
to_csv(header, rows) == [written |-> TRUE, header |-> header, rows |-> rows]

NotWritten == [written |-> FALSE, header |-> <<>>, rows |-> <<>>]

FileNames == {"train.csv", "validation.csv", "test.csv", "features.csv"}

\* the cells of a dataframe's rows in column order
cells(frame) ==
    [i \in 1..Len(frame.rows) |->
        [k \in 1..Len(frame.columns) |-> frame.rows[i][frame.columns[k]]]]

MainOrderFsBeforeWrites ==
    <<"download", "read", "transform", "shuffle", "split", "fs_check",
      "write_train", "write_validation", "write_test", "write_features">>

\* the order of the statements of __main__, lines 163-260
MainOrder ==
    <<"download", "read", "transform", "shuffle", "split", "write_train",
      "write_validation", "write_test", "write_features", "fs_check">>

After(stage) ==
    LET i == IndexOf(MainOrder, stage, 1) IN
    IF i = Len(MainOrder) THEN "done" ELSE MainOrder[i + 1]

EnabledOrNamed(a) ==
    str_lower(a.enable_feature_store) = TxtTrue \/ Truthy(a.feature_group_name)

\* line 246: args.enable_feature_store.lower() == "true" and args.feature_group_name
FeatureStoreEnabled(a) ==
    str_lower(a.enable_feature_store) = TxtTrue /\ Truthy(a.feature_group_name)

\* line 249
resolve_role(e) == PyOr(e.SAGEMAKER_ROLE_ARN, e.TRAINING_JOB_ROLE_ARN)

RoleIsNone(role) == ~role.set

\* line 250: if not role
RoleMissing(role) == ~Truthy(role)

AnyCreateFailure(text) == TRUE

\* line 131
AlreadyExists(text) ==
    str_contains(text, TxtResourceInUse)
        \/ str_contains(str_lower(text), TxtAlreadyExists)

\* texts of the exceptions feature_group.create raises
CreateErrors ==
    {<<"(", "R", "e", "s", "o", "u", "r", "c", "e", "I", "n", "U", "s", "e", ")">>, <<"r", "e", "s", "o", "u", "r", "c", "e", "i", "n", "u", "s", "e">>, <<"A", "l", "r", "e", "a", "d", "y", " ", "E", "x", "i", "s", "t", "s">>,
     <<"i", "t", " ", "a", "l", "r", "e", "a", "d", "y", " ", "e", "x", "i", "s", "t", "s">>, <<"A", "c", "c", "e", "s", "s", "D", "e", "n", "i", "e", "d">>}

CaughtOnlyImportError(exc) == exc = "ImportError"

\* lines 141-145: except ImportError, then except Exception
CaughtByWtfs(exc) == exc = "ImportError" \/ exc \in {"ClientError", "IngestionError"}

\* line 259: except Exception
CaughtByMain(exc) == exc \in {"ImportError", "ClientError", "IngestionError"}

\* the entries of the log that logger.warning writes (the others are logger.info)
Warnings ==
    {"role_not_found", "sdk_not_available", "failed_to_write", "column_not_found",
     "could_not_create", "ingestion_failed"}

inputVars == <<args, env, s3obj>>
dataVars == <<df, y, X, partitions, files, original_df>>
fsVars == <<wtfs, fs_ops, create_result, log>>

Crash(exc) ==
    /\ pc' = "crashed"
    /\ raised' = exc

Step(stage) ==
    /\ pc' = After(stage)
    /\ UNCHANGED raised

InitPreprocess(data, argset, envset) ==
    /\ args \in argset
    /\ env \in envset
    /\ s3obj \in data
    /\ pc = "download"
    /\ df = [columns |-> <<>>, rows |-> <<>>]
    /\ y = <<>>
    /\ X = <<>>
    /\ partitions = <<<<>>, <<>>, <<>>>>
    /\ files = [f \in FileNames |-> NotWritten]
    /\ original_df = [columns |-> <<>>, rows |-> <<>>]
    /\ wtfs = "not_called"
    /\ fs_ops = <<>>
    /\ create_result = [status |-> "none", text |-> <<>>]
    /\ log = <<>>
    /\ raised = "none"

\* lines 163-166: the object-store download
Download ==
    /\ pc = "download"
    /\ \E ok \in BOOLEAN : IF ok THEN Step("download") ELSE Crash("ClientError")
    /\ UNCHANGED <<inputVars, dataVars, fsVars>>
    /\ UNCHANGED <<doctorVars, splitVars>>

\* lines 168-175: pd.read_csv; an object without rows cannot be parsed
ReadCsv ==
    /\ pc = "read"
    /\ IF Len(s3obj) = 0
       THEN /\ Crash("EmptyDataError")
            /\ UNCHANGED df
       ELSE /\ df' = [columns |-> feature_columns_names \o <<label_column>>,
                      rows |-> s3obj]
            /\ Step("read")
    /\ UNCHANGED <<inputVars, y, X, partitions, files, original_df, fsVars>>
    /\ UNCHANGED <<doctorVars, splitVars>>

\* lines 205-210: y = df.pop("rings"), fit_transform, concatenate
Transform ==
    /\ pc = "transform"
    /\ LET popped == [columns |-> SelectSeq(df.columns, LAMBDA c : c # label_column),
                      rows |-> [i \in 1..Len(df.rows) |->
                                  [c \in DOMAIN df.rows[i] \ {label_column} |->
                                      df.rows[i][c]]]]
           label == [i \in 1..Len(df.rows) |-> df.rows[i][label_column]]
       IN  /\ df' = popped
           /\ y' = label
           /\ X' = np_concatenate(label, fit_transform(popped.rows))
    /\ Step("transform")
    /\ UNCHANGED <<inputVars, partitions, files, original_df, fsVars>>
    /\ UNCHANGED <<doctorVars, splitVars>>

\* line 216
Shuffle ==
    /\ pc = "shuffle"
    /\ X' \in np_random_shuffle(X)
    /\ Step("shuffle")
    /\ UNCHANGED <<inputVars, df, y, partitions, files, original_df, fsVars>>
    /\ UNCHANGED <<doctorVars, splitVars>>

\* lines 217-219
Split ==
    /\ pc = "split"
    /\ partitions' = train_validation_test(X)
    /\ Step("split")
    /\ UNCHANGED <<inputVars, df, y, X, files, original_df, fsVars>>
    /\ UNCHANGED <<doctorVars, splitVars>>

\* pd.DataFrame(part).to_csv(f, header=False, index=False); the write can fail
WritePartition(stage, f, k) ==
    /\ pc = stage
    /\ \E ok \in BOOLEAN :
         IF ok
         THEN /\ files' = [files EXCEPT ![f] = to_csv(<<>>, partitions[k])]
              /\ Step(stage)
         ELSE /\ Crash("OSError")
              /\ UNCHANGED files
    /\ UNCHANGED <<inputVars, df, y, X, partitions, original_df, fsVars>>
    /\ UNCHANGED <<doctorVars, splitVars>>

\* lines 222-224
WriteTrain == WritePartition("write_train", "train.csv", 1)
\* lines 225-227
WriteValidation == WritePartition("write_validation", "validation.csv", 2)
\* lines 228-230
WriteTest == WritePartition("write_test", "test.csv", 3)

\* lines 232-243: original_df = df.copy() with rings put back, written with a header
WriteFeatures ==
    /\ pc = "write_features"
    /\ \E ok \in BOOLEAN :
         IF ok
         THEN LET frame ==
                    [columns |-> df.columns \o <<label_column>>,
                     rows |-> [i \in 1..Len(df.rows) |->
                                 [c \in DOMAIN df.rows[i] \cup {label_column} |->
                                     IF c = label_column THEN y[i] ELSE df.rows[i][c]]]]
              IN  /\ original_df' = frame
                  /\ files' = [files EXCEPT
                                 !["features.csv"] = to_csv(frame.columns, cells(frame))]
                  /\ Step("write_features")
         ELSE /\ Crash("OSError")
              /\ UNCHANGED <<files, original_df>>
    /\ UNCHANGED <<inputVars, df, y, X, partitions, fsVars>>
    /\ UNCHANGED <<doctorVars, splitVars>>

\* lines 246-253: the decision to call write_to_feature_store
FsCheck ==
    /\ pc = "fs_check"
    /\ IF ~FeatureStoreEnabled(args)
       THEN UNCHANGED <<wtfs, log>> /\ Step("fs_check")
       ELSE IF RoleMissing(resolve_role(env))
       THEN /\ log' = Append(log, "role_not_found")
            /\ UNCHANGED wtfs
            /\ Step("fs_check")
       ELSE /\ wtfs' = "running"
            /\ pc' = "fs_import"
            /\ UNCHANGED <<log, raised>>
    /\ UNCHANGED <<inputVars, dataVars, fs_ops, create_result>>
    /\ UNCHANGED <<doctorVars, splitVars>>

\* return from write_to_feature_store, back in __main__ after line 258
WtfsReturn ==
    /\ wtfs' = "returned"
    /\ Step("fs_check")

\* an exception raised inside the try of write_to_feature_store (lines 60-145),
\* and, should it leave the function, inside the try of __main__ (lines 247-260)
WtfsRaise(exc) ==
    IF CaughtByWtfs(exc)
    THEN /\ log' = Append(log,
                IF exc = "ImportError" THEN "sdk_not_available" ELSE "failed_to_write")
         /\ WtfsReturn
    ELSE /\ wtfs' = "raised"
         /\ IF CaughtByMain(exc)
            THEN /\ log' = Append(log, "ingestion_failed")
                 /\ Step("fs_check")
            ELSE /\ Crash(exc)
                 /\ UNCHANGED log

\* lines 61-66: the SDK imports
FsImport ==
    /\ pc = "fs_import"
    /\ fs_ops' = Append(fs_ops, "import")
    /\ \E ok \in BOOLEAN :
         IF ok
         THEN /\ pc' = "fs_session"
              /\ log' = Append(log, "writing_features")
              /\ UNCHANGED <<wtfs, raised>>
         ELSE WtfsRaise("ImportError")
    /\ UNCHANGED <<inputVars, dataVars, create_result>>
    /\ UNCHANGED <<doctorVars, splitVars>>

\* lines 71-72: boto3.Session and sagemaker.Session
FsSession ==
    /\ pc = "fs_session"
    /\ fs_ops' = Append(fs_ops, "session")
    /\ \E ok \in BOOLEAN :
         IF ok
         THEN /\ pc' = "fs_prepare"
              /\ UNCHANGED <<wtfs, log, raised>>
         ELSE WtfsRaise("ClientError")
    /\ UNCHANGED <<inputVars, dataVars, create_result>>
    /\ UNCHANGED <<doctorVars, splitVars>>

\* lines 75-116: the feature definitions and the frame to ingest; a frame
\* without the label column ends the function
FsPrepare ==
    /\ pc = "fs_prepare"
    /\ IF label_column \notin Range(original_df.columns)
       THEN /\ log' = Append(log, "column_not_found")
            /\ WtfsReturn
       ELSE /\ pc' = "fs_create"
            /\ UNCHANGED <<wtfs, log, raised>>
    /\ UNCHANGED <<inputVars, dataVars, fs_ops, create_result>>
    /\ UNCHANGED <<doctorVars, splitVars>>

\* lines 118-135: feature_group.create, the ten-second wait, the inner handler
FsCreate ==
    /\ pc = "fs_create"
    /\ \/ /\ fs_ops' = fs_ops \o <<"create", "sleep">>
          /\ create_result' = [status |-> "created", text |-> <<>>]
          /\ pc' = "fs_ingest"
          /\ log' = Append(log, "created")
          /\ UNCHANGED <<wtfs, raised>>
       \/ \E text \in CreateErrors :
          /\ fs_ops' = Append(fs_ops, "create")
          /\ create_result' = [status |-> "failed", text |-> text]
          /\ IF AlreadyExists(text)
             THEN /\ pc' = "fs_ingest"
                  /\ log' = Append(log, "already_exists")
                  /\ UNCHANGED <<wtfs, raised>>
             ELSE /\ log' = Append(log, "could_not_create")
                  /\ WtfsReturn
    /\ UNCHANGED <<inputVars, dataVars>>
    /\ UNCHANGED <<doctorVars, splitVars>>

\* lines 137-139: feature_group.ingest(..., wait=True)
FsIngest ==
    /\ pc = "fs_ingest"
    /\ fs_ops' = Append(fs_ops, "ingest")
    /\ \E ok \in BOOLEAN :
         IF ok
         THEN /\ WtfsReturn
              /\ log' = Append(log, "ingested")
         ELSE WtfsRaise("IngestionError")
    /\ UNCHANGED <<inputVars, dataVars, create_result>>
    /\ UNCHANGED <<doctorVars, splitVars>>

write_to_feature_store ==
    \/ FsImport
    \/ FsSession
    \/ FsPrepare
    \/ FsCreate
    \/ FsIngest

-----------------------------------------------------------------------------
(* Specifications: each runs one script and leaves the other components idle *)

IdleDoctor ==
    /\ sdk = [installed |-> FALSE, version |-> <<>>]
    /\ dpc = "idle"
    /\ verdict = "unset"
    /\ needs_upgrade = FALSE
    /\ workflow_available = FALSE
    /\ pip_calls = 0
    /\ wf_imports = <<>>
    /\ uncaught = "none"
    /\ exit_code = -1

IdleSplit ==
    /\ split_in = <<>>
    /\ split_out = [done |-> TRUE, train |-> <<>>, validation |-> <<>>, test |-> <<>>]

IdlePreprocess ==
    /\ args = DefaultArgs
    /\ env = EmptyEnv
    /\ s3obj = <<>>
    /\ pc = "idle"
    /\ df = [columns |-> <<>>, rows |-> <<>>]
    /\ y = <<>>
    /\ X = <<>>
    /\ partitions = <<<<>>, <<>>, <<>>>>
    /\ files = [f \in FileNames |-> NotWritten]
    /\ original_df = [columns |-> <<>>, rows |-> <<>>]
    /\ wtfs = "not_called"
    /\ fs_ops = <<>>
    /\ create_result = [status |-> "none", text |-> <<>>]
    /\ log = <<>>
    /\ raised = "none"

\* the SDK doctor, over every SDK state
InitSpecDoctor == InitDoctor /\ IdleSplit /\ IdlePreprocess
NextDoctor == check_and_install_sagemaker
SpecDoctor == InitSpecDoctor /\ [][NextDoctor]_vars

\* the split alone, over every row count up to MaxSplitRows
InitSpecSplit == InitSplit /\ IdleDoctor /\ IdlePreprocess
NextSplit == SplitRows
SpecSplit == InitSpecSplit /\ [][NextSplit]_vars

\* the preprocessor, over every command line, environment and small dataset
InitSpecPre ==
    InitPreprocess(Datasets(RowSpace, MaxRows), ArgSpace, EnvSpace)
        /\ IdleDoctor /\ IdleSplit
main ==
    \/ Download
    \/ ReadCsv
    \/ Transform
    \/ Shuffle
    \/ Split
    \/ WriteTrain
    \/ WriteValidation
    \/ WriteTest
    \/ WriteFeatures
    \/ FsCheck
NextPre == main \/ write_to_feature_store
SpecPre == InitSpecPre /\ [][NextPre]_vars

\* the data path of the preprocessor with the feature store left off (the
\* default command line), over datasets large enough for three non-empty parts
InitSpecData ==
    InitPreprocess(Datasets(DataRows, MaxDataRows), {DefaultArgs}, {EmptyEnv})
        /\ IdleDoctor /\ IdleSplit
NextData == main
SpecData == InitSpecData /\ [][NextData]_vars

-----------------------------------------------------------------------------
(* Claims about the SDK doctor *)

HasMajor(v) == IntParses(str_split(v, ".")[1])
MajorOf(v) == IntOf(str_split(v, ".")[1])

\* C3: for every version string an installed SDK reports, a major version below 2
\* is classified as needing upgrade and the install is run, and a major version
\* of 2 or more is not classified as too old.
C3_VersionClassified ==
    (dpc = "exited" /\ sdk.installed /\ HasMajor(sdk.version)) =>
        IF MajorOf(sdk.version) < 2
        THEN verdict = "too_old" /\ pip_calls = 1
        ELSE verdict # "too_old"

\* C4: the doctor exits 0 exactly when its last attempt to import the workflow
\* submodule succeeded, and exits 1 in every other outcome.
C4_ExitCode ==
    dpc = "exited" =>
        /\ exit_code \in {0, 1}
        /\ exit_code = 0 <=> (Len(wf_imports) > 0 /\ Last(wf_imports))

C4_Witness ==
    /\ dpc = "exited"
    /\ exit_code = 0
    /\ pip_calls = 1
    /\ wf_imports = <<FALSE, TRUE>>

FirstWorkflowImportFailed ==
    verdict = "compatible" /\ Len(wf_imports) >= 1 /\ ~wf_imports[1]

\* C8: the install is invoked at most once, and exactly when the SDK is not
\* importable, or its major version is below 2, or the first workflow import
\* fails; a pass after an install follows a second workflow import; every run
\* ends with a pass or a fail.
C8_InstallExactlyWhenNeeded ==
    dpc = "exited" =>
        /\ pip_calls <= 1
        /\ pip_calls = 1 <=>
              \/ ~sdk.installed
              \/ sdk.installed /\ HasMajor(sdk.version) /\ MajorOf(sdk.version) < 2
              \/ FirstWorkflowImportFailed
        /\ (exit_code = 0 /\ pip_calls = 1) =>
              (Len(wf_imports) >= 1 /\ Last(wf_imports)
                 /\ Len(wf_imports) = (IF verdict = "compatible" THEN 2 ELSE 1))
        /\ exit_code \in {0, 1}

-----------------------------------------------------------------------------
(* Claims about the split *)

\* C2: for every row count n the split yields train = rows [0, int(0.7 n)),
\* validation = rows [int(0.7 n), int(0.85 n)) and test = rows [int(0.85 n), n):
\* consecutive, non-overlapping, sizes summing to n.
C2_SplitBoundaries ==
    split_out.done =>
        LET n == Len(split_in)
            a == int_of_product(Double07, n)
            b == int_of_product(Double085, n)
        IN  /\ 0 <= a /\ a <= b /\ b <= n
            /\ split_out.train = [i \in 1..a |-> split_in[i]]
            /\ split_out.validation = [i \in 1..(b - a) |-> split_in[a + i]]
            /\ split_out.test = [i \in 1..(n - b) |-> split_in[b + i]]
            /\ Len(split_out.train) + Len(split_out.validation)
                 + Len(split_out.test) = n
            /\ split_out.train \o split_out.validation \o split_out.test = split_in

C2_Witness ==
    /\ split_out.done
    /\ Len(split_in) = 90
    /\ Len(split_out.train) = 62
    /\ Len(split_out.validation) = 14
    /\ Len(split_out.test) = 14

-----------------------------------------------------------------------------
(* Claims about the preprocessor *)

EndsWith(s, x) == Len(s) > 0 /\ s[Len(s)] = x

FsPcs == {"fs_check", "fs_import", "fs_session", "fs_prepare", "fs_create", "fs_ingest"}

PartitionFile(k) ==
    CASE k = 1 -> "train.csv" [] k = 2 -> "validation.csv" [] k = 3 -> "test.csv"

PartitionFilesWritten ==
    \A k \in 1..3 :
        /\ files[PartitionFile(k)].written
        /\ files[PartitionFile(k)].header = <<>>
        /\ files[PartitionFile(k)].rows = partitions[k]

\* the feature-store step of __main__ (line 246 on) has been reached
FsStepReached ==
    pc \in FsPcs \/ pc = "done" \/ wtfs # "not_called" \/ fs_ops # <<>>
        \/ log # <<>>

\* C1: the three partition files are all written before the first feature-store
\* operation is attempted, so whatever the feature store does they are written
\* when the run ends.
C1_PartitionsBeforeFeatureStore == FsStepReached => PartitionFilesWritten

C1_Witness ==
    /\ pc = "done"
    /\ fs_ops = <<"import", "session", "create", "ingest">>
    /\ EndsWith(log, "failed_to_write")
    /\ PartitionFilesWritten
    /\ Len(partitions[1]) > 0

IsTrueIgnoringCase(t) ==
    /\ Len(t) = 4
    /\ t[1] \in {"t", "T"} /\ t[2] \in {"r", "R"}
    /\ t[3] \in {"u", "U"} /\ t[4] \in {"e", "E"}

FlagsAskForFeatureStore ==
    /\ IsTrueIgnoringCase(args.enable_feature_store)
    /\ args.feature_group_name.set
    /\ args.feature_group_name.value # <<>>

NoRoleInEnvironment ==
    \A v \in {env.SAGEMAKER_ROLE_ARN, env.TRAINING_JOB_ROLE_ARN} :
        ~v.set \/ v.value = <<>>

\* C5: with the feature store enabled and named but neither role variable set to
\* a non-empty value, write_to_feature_store is never called, a warning is
\* logged and the run ends without raising.
C5_MissingRoleSkips ==
    (FlagsAskForFeatureStore /\ NoRoleInEnvironment) =>
        /\ wtfs = "not_called"
        /\ fs_ops = <<>>
        /\ pc \notin FsPcs \ {"fs_check"}
        /\ pc = "done" => log = <<"role_not_found">>
        /\ log \in {<<>>, <<"role_not_found">>}
        /\ log # <<>> => (pc = "done" /\ raised = "none")

C5_Witness ==
    /\ FlagsAskForFeatureStore
    /\ env.SAGEMAKER_ROLE_ARN = None
    /\ env.TRAINING_JOB_ROLE_ARN = Str(<<>>)
    /\ pc = "done"
    /\ log = <<"role_not_found">>
    /\ wtfs = "not_called"

PcRank(p) ==
    CASE p = "download" -> 1 [] p = "read" -> 2 [] p = "transform" -> 3
      [] p = "shuffle" -> 4 [] p = "split" -> 5 [] p = "write_train" -> 6
      [] p = "write_validation" -> 7 [] p = "write_test" -> 8
      [] p = "write_features" -> 9 [] p = "fs_check" -> 10
      [] p = "fs_import" -> 11 [] p = "fs_session" -> 12
      [] p = "fs_prepare" -> 13 [] p = "fs_create" -> 14
      [] p = "fs_ingest" -> 15 [] p = "done" -> 16 [] p = "crashed" -> 16

\* C6: no feature-store error propagates: at every failure point
\* write_to_feature_store returns normally after logging, and a run that has
\* reached the feature-store step never crashes, never gets stuck and keeps
\* advancing until it is done.
C6_NoFeatureStoreErrorEscapes ==
    /\ [](FsStepReached =>
            /\ wtfs # "raised"
            /\ raised = "none"
            /\ pc # "crashed"
            /\ pc = "done" \/ ENABLED NextPre
            /\ wtfs = "returned" =>
                  (EndsWith(log, "ingested")
                     \/ (Len(log) > 0 /\ log[Len(log)] \in Warnings)))
    /\ [][PcRank(pc') > PcRank(pc)]_vars

C6_Witness ==
    /\ pc = "done"
    /\ wtfs = "returned"
    /\ EndsWith(fs_ops, "ingest")
    /\ EndsWith(log, "failed_to_write")
    /\ raised = "none"

\* label and transformed features of every input row, in input order
ExpectedRows ==
    LET t == fit_transform(s3obj) IN
    [i \in 1..Len(s3obj) |-> <<s3obj[i].rings>> \o t[i]]

\* C7: every row written to train.csv, validation.csv and test.csv is the label
\* of one input row followed by the transformed features of that same row; the
\* shuffle moves whole rows.
C7_LabelStaysWithFeatures ==
    (\E k \in 1..3 : files[PartitionFile(k)].written) =>
        LET expected == ExpectedRows
            rows == Range(expected)
        IN  /\ \A k \in 1..3 :
                  files[PartitionFile(k)].written =>
                      \A r \in Range(files[PartitionFile(k)].rows) : r \in rows
            /\ (\A k \in 1..3 : files[PartitionFile(k)].written) =>
                  SameBag(files["train.csv"].rows \o files["validation.csv"].rows
                            \o files["test.csv"].rows, expected)

C7_Witness ==
    /\ \A k \in 1..3 :
          files[PartitionFile(k)].written /\ Len(files[PartitionFile(k)].rows) > 0
    /\ Cardinality({r[1] : r \in Range(files["train.csv"].rows)}) = 2
    /\ files["train.csv"].rows \o files["validation.csv"].rows
          \o files["test.csv"].rows # ExpectedRows

MatchingCreateErrors == {<<"(", "R", "e", "s", "o", "u", "r", "c", "e", "I", "n", "U", "s", "e", ")">>, <<"A", "l", "r", "e", "a", "d", "y", " ", "E", "x", "i", "s", "t", "s">>, <<"i", "t", " ", "a", "l", "r", "e", "a", "d", "y", " ", "e", "x", "i", "s", "t", "s">>}

\* C9: ingestion is attempted only after creation succeeded or failed with a
\* text containing "ResourceInUse" or, ignoring case, "already exists"; any
\* other creation failure returns without ingesting; the ten-second wait happens
\* once, right after a successful creation; nothing is retried.
C9_CreateThenIngest ==
    /\ "ingest" \in Range(fs_ops) =>
          \/ create_result.status = "created"
          \/ create_result.status = "failed"
               /\ create_result.text \in MatchingCreateErrors
    /\ (create_result.status = "failed"
          /\ create_result.text \notin MatchingCreateErrors) =>
          /\ "ingest" \notin Range(fs_ops)
          /\ wtfs = "returned"
          /\ EndsWith(log, "could_not_create")
    /\ Count(fs_ops, "sleep") = (IF create_result.status = "created" THEN 1 ELSE 0)
    /\ Count(fs_ops, "create") = (IF create_result.status = "none" THEN 0 ELSE 1)
    /\ Count(fs_ops, "ingest") <= 1
    /\ \A i \in 1..Len(fs_ops) :
          /\ fs_ops[i] = "sleep" => (i > 1 /\ fs_ops[i - 1] = "create")
          /\ fs_ops[i] = "ingest" => (i > 1 /\ fs_ops[i - 1] \in {"create", "sleep"})

C9_Witness ==
    /\ pc = "done"
    /\ create_result = [status |-> "failed", text |-> <<"A", "l", "r", "e", "a", "d", "y", " ", "E", "x", "i", "s", "t", "s">>]
    /\ EndsWith(fs_ops, "ingest")
    /\ Count(fs_ops, "sleep") = 0

\* C10: write_to_feature_store is called only when --enable-feature-store is
\* "true" ignoring case and --feature-group-name is non-empty; the partition
\* files and the headered features.csv are written whatever the flags are.
C10_FlagsGateFeatureStore ==
    /\ (wtfs # "not_called" \/ fs_ops # <<>>) => FlagsAskForFeatureStore
    /\ (pc \in FsPcs \/ pc = "done") =>
          /\ PartitionFilesWritten
          /\ files["features.csv"].written
          /\ files["features.csv"].header = <<"sex", "length", "rings">>
          /\ Len(files["features.csv"].rows) = Len(s3obj)

C10_Witness ==
    /\ pc = "done"
    /\ args.enable_feature_store = <<"T", "r", "u", "e">>
    /\ args.feature_group_name = Str(<<>>)
    /\ Truthy(resolve_role(env))
    /\ wtfs = "not_called"
    /\ files["features.csv"].written
    /\ PartitionFilesWritten

====
